---- MODULE Spec2Model ----
(***************************************************************************)
(* LinkedQL result steps (Select, SelectFirst, Value, Documents) of        *)
(* cayley, query/linkedql/steps/steps_final.go, together with BuildFrom    *)
(* and the parts of the step compiler, the path algebra and the result     *)
(* iterators those steps are built on.                                     *)
(***************************************************************************)
EXTENDS Integers, Sequences, FiniteSets, TLC

\* ------------------------------------------------------------------ bounds
\* Advances of one iterator a caller may make after the first "not advanced".
MaxExtraNext == 1
\* Queries built one after the other on the same store and namespace.
MaxQueries == 2

\* ------------------------------------------------------------------ values
\* A typed value: an entity reference (IRI) or a string literal.
IRI(s) == [t |-> "iri", v |-> s]
Str(s) == [t |-> "str", v |-> s]

\* The characters of the strings the model's stores and patterns are made of.
Chars ==
    ("alice" :> <<"a", "l", "i", "c", "e">>) @@
    ("bob" :> <<"b", "o", "b">>) @@
    ("dan" :> <<"d", "a", "n">>) @@
    ("likes" :> <<"l", "i", "k", "e", "s">>) @@
    ("name" :> <<"n", "a", "m", "e">>) @@
    ("Alice" :> <<"A", "l", "i", "c", "e">>) @@
    ("Bob" :> <<"B", "o", "b">>) @@
    ("ex:alice" :> <<"e", "x", ":", "a", "l", "i", "c", "e">>) @@
    ("ex:bob" :> <<"e", "x", ":", "b", "o", "b">>) @@
    ("ex:likes" :> <<"e", "x", ":", "l", "i", "k", "e", "s">>) @@
    ("A" :> <<"A">>) @@
    ("a%" :> <<"a", "%">>) @@
    ("%o_" :> <<"%", "o", "_">>) @@
    ("lic" :> <<"l", "i", "c">>)

\* Byte order of the characters in use.
Alphabet == <<"%", ":", "A", "B", "_", "a", "b", "c", "d", "e", "i", "k", "l",
              "m", "n", "o", "s", "x">>

Code(c) == CHOOSE i \in 1..Len(Alphabet) : Alphabet[i] = c

RECURSIVE SeqLess(_, _)
SeqLess(a, b) ==
    IF b = <<>> THEN FALSE
    ELSE IF a = <<>> THEN TRUE
    ELSE IF Head(a) # Head(b) THEN Code(Head(a)) < Code(Head(b))
    ELSE SeqLess(Tail(a), Tail(b))

\* The store's total order over values, used by Order.
ValueLess(x, y) ==
    \/ SeqLess(Chars[x.v], Chars[y.v])
    \/ x.v = y.v /\ x.t = "iri" /\ y.t = "str"

Range(s) == {s[i] : i \in 1..Len(s)}

\* ------------------------------------------------------------------- store
Quad(s, p, o) == [s |-> s, p |-> p, o |-> o]

singleQuadData == <<Quad(IRI("alice"), IRI("likes"), IRI("bob"))>>

regexpData == <<Quad(IRI("alice"), IRI("name"), Str("Alice"))>>

optionalData ==
    <<Quad(IRI("alice"), IRI("likes"), IRI("bob")),
      Quad(IRI("alice"), IRI("name"), IRI("Alice")),
      Quad(IRI("bob"), IRI("name"), IRI("Bob"))>>

documentsData ==
    <<Quad(IRI("alice"), IRI("likes"), IRI("bob")),
      Quad(IRI("alice"), IRI("name"), IRI("Alice")),
      Quad(IRI("bob"), IRI("name"), IRI("Bob")),
      Quad(IRI("bob"), IRI("likes"), IRI("alice"))>>

\* The full names of the Context test, and the short names beside them.
contextData ==
    <<Quad(IRI("ex:alice"), IRI("ex:likes"), IRI("ex:bob")),
      Quad(IRI("ex:bob"), IRI("ex:likes"), IRI("ex:alice")),
      Quad(IRI("bob"), IRI("likes"), IRI("alice"))>>

\* A subject with two values of one property, and literals among the nodes.
multiData ==
    <<Quad(IRI("alice"), IRI("likes"), IRI("bob")),
      Quad(IRI("alice"), IRI("likes"), IRI("dan")),
      Quad(IRI("alice"), IRI("name"), Str("Alice")),
      Quad(IRI("dan"), IRI("name"), Str("Bob"))>>

Stores == {<<>>, singleQuadData, regexpData, optionalData, documentsData, contextData,
           multiData}

RECURSIVE Dedup(_)
Dedup(s) ==
    IF s = <<>> THEN <<>>
    ELSE LET r == Dedup(SubSeq(s, 1, Len(s) - 1))
             x == s[Len(s)]
         IN IF x \in Range(r) THEN r ELSE Append(r, x)

RECURSIVE QuadValues(_)
QuadValues(data) ==
    IF data = <<>> THEN <<>>
    ELSE <<Head(data).s, Head(data).p, Head(data).o>> \o QuadValues(Tail(data))

\* The nodes of a store, in the order the store first saw them.
AllNodes(qs) == Dedup(QuadValues(qs))

\* ------------------------------------------------------------ path algebra
\* A path expression is the tree of the store's path primitives a step
\* compiles to.  StartPath with no values starts at every node of the store.
StartPath(values) == [op |-> "start", values |-> values]
StartMorphism == [op |-> "morphism"]
PathOut(p, via) == [op |-> "out", of |-> p, via |-> via]
PathTag(p, tag) == [op |-> "tag", of |-> p, tag |-> tag]
PathSave(p, pred, tag) == [op |-> "save", of |-> p, pred |-> pred, tag |-> tag]
PathHas(p, pred, values) == [op |-> "has", of |-> p, pred |-> pred, among |-> values]
PathOptional(p, q) == [op |-> "optional", of |-> p, with |-> q]
PathOr(p, q) == [op |-> "or", of |-> p, with |-> q]
PathAnd(p, q) == [op |-> "and", of |-> p, with |-> q]
PathExcept(p, q) == [op |-> "except", of |-> p, with |-> q]
PathRegex(p, pattern) == [op |-> "regex", of |-> p, pattern |-> pattern]
PathLike(p, pattern) == [op |-> "like", of |-> p, pattern |-> pattern]
PathOrder(p) == [op |-> "order", of |-> p]
PathLimit(p, n) == [op |-> "limit", of |-> p, n |-> n]

\* One match of a path: the node it ends at and the tags bound on the way.
NoTags == [x \in {} |-> IRI("")]
Binding(node, tags) == [node |-> node, tags |-> tags]

RECURSIVE Flatten(_)
Flatten(ss) == IF ss = <<>> THEN <<>> ELSE Head(ss) \o Flatten(Tail(ss))

NodesOf(bs) == {bs[i].node : i \in 1..Len(bs)}

Min(a, b) == IF a < b THEN a ELSE b

\* Regular expression made of literal characters: matches when s contains it.
RegexpMatch(pattern, s) ==
    \E i \in 1..(Len(s) + 1) :
        /\ i + Len(pattern) - 1 <= Len(s)
        /\ SubSeq(s, i, i + Len(pattern) - 1) = pattern

RECURSIVE InsertSorted(_, _)
InsertSorted(sorted, b) ==
    IF sorted = <<>> THEN <<b>>
    ELSE IF ValueLess(b.node, Head(sorted).node) THEN <<b>> \o sorted
    ELSE <<Head(sorted)>> \o InsertSorted(Tail(sorted), b)

RECURSIVE SortBindings(_)
SortBindings(bs) ==
    IF bs = <<>> THEN <<>>
    ELSE InsertSorted(SortBindings(SubSeq(bs, 1, Len(bs) - 1)), bs[Len(bs)])

\* regexp filter of the store: literal contents only.
RegexFilter(bs, pattern) ==
    SelectSeq(bs, LAMBDA b : b.node.t = "str" /\ RegexpMatch(Chars[pattern], Chars[b.node.v]))

\* SQL wildcard match of the whole of s: % is any run, _ any one character.
RECURSIVE WildcardMatch(_, _)
WildcardMatch(pattern, s) ==
    IF pattern = <<>> THEN s = <<>>
    ELSE IF Head(pattern) = "%" THEN
        \/ WildcardMatch(Tail(pattern), s)
        \/ s # <<>> /\ WildcardMatch(pattern, Tail(s))
    ELSE /\ s # <<>>
         /\ Head(pattern) = "_" \/ Head(pattern) = Head(s)
         /\ WildcardMatch(Tail(pattern), Tail(s))

LikeFilter_LiteralsOnly(bs, pattern) ==
    SelectSeq(bs, LAMBDA b :
        b.node.t = "str" /\ WildcardMatch(Chars[pattern], Chars[b.node.v]))

\* wildcard filter of the store: the pattern is matched against the string
\* form of a node, an entity reference as well as a literal.
LikeFilter(bs, pattern) ==
    SelectSeq(bs, LAMBDA b : WildcardMatch(Chars[pattern], Chars[b.node.v]))

\* The matches of a path over store qs, in the store's order; ambient is the
\* position a morphism (Placeholder) re-enters.
RECURSIVE Iterate(_, _, _)
Iterate(p, qs, ambient) ==
    IF p.op = "start" THEN
        LET nodes == AllNodes(qs)
            from == IF p.values = <<>> THEN nodes
                    ELSE SelectSeq(p.values, LAMBDA v : v \in Range(nodes))
        IN [i \in 1..Len(from) |-> Binding(from[i], NoTags)]
    ELSE IF p.op = "morphism" THEN ambient
    ELSE LET bs == Iterate(p.of, qs, ambient) IN
    CASE p.op = "out" ->
           Flatten([i \in 1..Len(bs) |->
               LET m == SelectSeq(qs, LAMBDA q : q.s = bs[i].node /\ q.p \in Range(p.via))
               IN [j \in 1..Len(m) |-> Binding(m[j].o, bs[i].tags)]])
      [] p.op = "tag" ->
           [i \in 1..Len(bs) |-> Binding(bs[i].node, (p.tag :> bs[i].node) @@ bs[i].tags)]
      [] p.op = "save" ->
           Flatten([i \in 1..Len(bs) |->
               LET m == SelectSeq(qs, LAMBDA q : q.s = bs[i].node /\ q.p = p.pred)
               IN [j \in 1..Len(m) |-> Binding(bs[i].node, (p.tag :> m[j].o) @@ bs[i].tags)]])
      [] p.op = "has" ->
           SelectSeq(bs, LAMBDA b : \E i \in 1..Len(qs) :
               qs[i].s = b.node /\ qs[i].p = p.pred /\ qs[i].o \in Range(p.among))
      [] p.op = "optional" ->
           [i \in 1..Len(bs) |->
               LET m == Iterate(p.with, qs, <<bs[i]>>)
               IN IF m = <<>> THEN bs[i]
                  ELSE Binding(bs[i].node, m[1].tags @@ bs[i].tags)]
      [] p.op = "or" -> bs \o Iterate(p.with, qs, ambient)
      [] p.op = "and" ->
           LET other == NodesOf(Iterate(p.with, qs, ambient))
           IN SelectSeq(bs, LAMBDA b : b.node \in other)
      [] p.op = "except" ->
           LET other == NodesOf(Iterate(p.with, qs, ambient))
           IN SelectSeq(bs, LAMBDA b : b.node \notin other)
      [] p.op = "regex" -> RegexFilter(bs, p.pattern)
      [] p.op = "like" -> LikeFilter(bs, p.pattern)
      [] p.op = "order" -> SortBindings(bs)
      [] p.op = "limit" -> SubSeq(bs, 1, Min(p.n, Len(bs)))

\* -------------------------------------------------------------- namespaces
\* The registry maps a short name to its full identifier.
NoRules == [x \in {} |-> ""]

FullIRI(ns, name) == IF name \in DOMAIN ns THEN ns[name] ELSE name

FullValue(ns, v) == IF v.t = "iri" THEN IRI(FullIRI(ns, v.v)) ELSE v

FullValues(ns, values) == [i \in 1..Len(values) |-> FullValue(ns, values[i])]

Register(ns, rules) == rules @@ ns

\* ------------------------------------------------------------------- steps
NIL == [kind |-> "nil"]
Vertex(values) == [kind |-> "Vertex", Values |-> values]
Placeholder == [kind |-> "Placeholder"]
As(from, name) == [kind |-> "As", From |-> from, Name |-> name]
Visit(from, properties) == [kind |-> "Visit", From |-> from, Properties |-> properties]
Properties(from, names) == [kind |-> "Properties", From |-> from, Names |-> names]
Has(from, property, values) ==
    [kind |-> "Has", From |-> from, Property |-> property, Values |-> values]
Optional(from, step) == [kind |-> "Optional", From |-> from, Step |-> step]
RegExp(from, pattern) == [kind |-> "RegExp", From |-> from, Pattern |-> pattern]
Like(from, pattern) == [kind |-> "Like", From |-> from, Pattern |-> pattern]
Order(from) == [kind |-> "Order", From |-> from]
Union(from, steps) == [kind |-> "Union", From |-> from, Steps |-> steps]
Intersect(from, steps) == [kind |-> "Intersect", From |-> from, Steps |-> steps]
Difference(from, steps) == [kind |-> "Difference", From |-> from, Steps |-> steps]
Context(from, rules) == [kind |-> "Context", From |-> from, Rules |-> rules]

Select(from, tags) == [kind |-> "Select", From |-> from, Tags |-> tags]
SelectFirst(from, tags) == [kind |-> "SelectFirst", From |-> from, Tags |-> tags]
Value(from) == [kind |-> "Value", From |-> from, Tags |-> <<>>]
Documents(from) == [kind |-> "Documents", From |-> from, Tags |-> <<>>]

\* ---------------------------------------------------------------- compiler
NoErr == "nil"
ConfigurationError == "ConfigurationError"
StoreError == "StoreError"
NoPath == [op |-> "none"]

\* What a compilation returns: the path and the error, and the registry as
\* the call leaves it.
Built(path, ns) == [path |-> path, err |-> NoErr, ns |-> ns]
Failed(err, ns) == [path |-> NoPath, err |-> err, ns |-> ns]

\* The step's own operation applied to its compiled From.
Then(f, path) == IF f.err # NoErr THEN f ELSE [f EXCEPT !.path = path]

RECURSIVE SaveAll(_, _, _)
SaveAll(p, names, ns) ==
    IF names = <<>> THEN p
    ELSE SaveAll(PathSave(p, IRI(FullIRI(ns, Head(names))), Head(names)), Tail(names), ns)

SetOp(kind, p, q) ==
    CASE kind = "Union" -> PathOr(p, q)
      [] kind = "Intersect" -> PathAnd(p, q)
      [] kind = "Difference" -> PathExcept(p, q)

ContextExit_KeepsOnError(saved, r) == IF r.err # NoErr THEN r ELSE [r EXCEPT !.ns = saved]

\* Context leaves the registry as it found it, whatever came of From.
ContextExit(saved, r) == [r EXCEPT !.ns = saved]

RECURSIVE BuildPath(_, _, _, _)
RECURSIVE BuildSteps(_, _, _, _, _)

BuildFrom_NilFails(from, qs, ns, ambient) ==
    IF from = NIL THEN Failed(ConfigurationError, ns)
    ELSE BuildPath(from, qs, ns, ambient)

\* BuildFrom returns for given from step a path to be used by PathStep's
\* BuildPath; ambient tells whether an enclosing scope supplies a path.
BuildFrom(from, qs, ns, ambient) ==
    IF from = NIL THEN Built(StartPath(<<>>), ns)
    ELSE BuildPath(from, qs, ns, ambient)

\* Steps applied to the path acc one after the other, left to right.
BuildSteps(kind, acc, steps, qs, ambient) ==
    IF acc.err # NoErr \/ steps = <<>> THEN acc
    ELSE LET r == BuildPath(Head(steps), qs, acc.ns, ambient)
         IN IF r.err # NoErr THEN r
            ELSE BuildSteps(kind, Built(SetOp(kind, acc.path, r.path), r.ns),
                            Tail(steps), qs, ambient)

BuildPath(step, qs, ns, ambient) ==
    CASE step.kind = "Vertex" -> Built(StartPath(FullValues(ns, step.Values)), ns)
      [] step.kind = "Placeholder" ->
           IF ambient THEN Built(StartMorphism, ns) ELSE Failed(ConfigurationError, ns)
      [] step.kind = "Context" ->
           ContextExit(ns, BuildFrom(step.From, qs, Register(ns, step.Rules), ambient))
      [] step.kind = "Optional" ->
           LET f == BuildFrom(step.From, qs, ns, ambient)
               s == BuildPath(step.Step, qs, f.ns, TRUE)
           IN IF f.err # NoErr THEN f
              ELSE IF s.err # NoErr THEN s
              ELSE Built(PathOptional(f.path, s.path), s.ns)
      [] step.kind \in {"Union", "Intersect", "Difference"} ->
           BuildSteps(step.kind, BuildFrom(step.From, qs, ns, ambient), step.Steps,
                      qs, ambient)
      [] OTHER ->
           LET f == BuildFrom(step.From, qs, ns, ambient) IN
           CASE step.kind = "As" -> Then(f, PathTag(f.path, step.Name))
             [] step.kind = "Visit" ->
                  Then(f, PathOut(f.path, [i \in 1..Len(step.Properties) |->
                                      IRI(FullIRI(ns, step.Properties[i]))]))
             [] step.kind = "Properties" -> Then(f, SaveAll(f.path, step.Names, ns))
             [] step.kind = "Has" ->
                  Then(f, PathHas(f.path, IRI(FullIRI(ns, step.Property)),
                                  FullValues(ns, step.Values)))
             [] step.kind = "RegExp" -> Then(f, PathRegex(f.path, step.Pattern))
             [] step.kind = "Like" -> Then(f, PathLike(f.path, step.Pattern))
             [] step.kind = "Order" -> Then(f, PathOrder(f.path))

\* --------------------------------------------------------------- iterators
NoIterator == [kind |-> "nil"]

\* ValueIterator: the store's cursor over a path (scanner), its current
\* position (cur, empty before the first advance and after the last) and the
\* error recorded.
NewValueIterator(path, qs) ==
    [kind |-> "ValueIterator", path |-> path, scanner |-> Iterate(path, qs, <<>>),
     cur |-> <<>>, err |-> NoErr]

TagsIterator(valueIt, selected) ==
    [kind |-> "TagsIterator", ValueIt |-> valueIt, Selected |-> selected]

NewDocumentIterator(tagsIt) ==
    [kind |-> "DocumentIterator", tagsIt |-> tagsIt, current |-> <<>>]

\* The value iterator an iterator draws from.
ValueItOf(it) ==
    CASE it.kind = "ValueIterator" -> it
      [] it.kind = "TagsIterator" -> it.ValueIt
      [] it.kind = "DocumentIterator" -> it.tagsIt.ValueIt

ValueNext_ForgetsError(v, storeOk) ==
    IF ~storeOk THEN [it |-> [v EXCEPT !.err = StoreError, !.cur = <<>>], ok |-> FALSE]
    ELSE IF v.scanner = <<>> THEN [it |-> [v EXCEPT !.cur = <<>>], ok |-> FALSE]
    ELSE [it |-> [v EXCEPT !.cur = <<Head(v.scanner)>>, !.scanner = Tail(v.scanner)],
          ok |-> TRUE]

\* An advance of the value iterator; storeOk is whether the store's cursor
\* answers this advance without failure.
ValueNext(v, storeOk) ==
    IF v.err # NoErr THEN [it |-> v, ok |-> FALSE]
    ELSE IF ~storeOk THEN [it |-> [v EXCEPT !.err = StoreError, !.cur = <<>>], ok |-> FALSE]
    ELSE IF v.scanner = <<>> THEN [it |-> [v EXCEPT !.cur = <<>>], ok |-> FALSE]
    ELSE [it |-> [v EXCEPT !.cur = <<Head(v.scanner)>>, !.scanner = Tail(v.scanner)],
          ok |-> TRUE]

\* The record of a binding set: every tag when none is selected, otherwise
\* the selected tags the binding set has.
TagsRecord(tags, selected) ==
    IF selected = <<>> THEN tags
    ELSE [t \in Range(selected) \cap DOMAIN tags |-> tags[t]]

\* The length of the run of bindings at the head of bs that share its subject.
RECURSIVE RunLength(_)
RunLength(bs) ==
    IF Len(bs) <= 1 THEN Len(bs)
    ELSE IF bs[2].node = bs[1].node THEN 1 + RunLength(Tail(bs))
    ELSE 1

\* The values of property tag in the records of a run, in arrival order.
RECURSIVE PropertyValues(_, _)
PropertyValues(records, tag) ==
    IF records = <<>> THEN <<>>
    ELSE (IF tag \in DOMAIN Head(records) THEN <<Head(records)[tag]>> ELSE <<>>)
         \o PropertyValues(Tail(records), tag)

\* The document of a run of bindings of one subject.
Document(run, selected) ==
    LET records == [i \in 1..Len(run) |-> TagsRecord(run[i].tags, selected)]
        tags == UNION {DOMAIN records[i] : i \in 1..Len(records)}
    IN ("@id" :> run[1].node.v) @@ [t \in tags |-> PropertyValues(records, t)]

\* An advance of the document iterator takes the whole run of the next subject.
DocumentNext(d, storeOk) ==
    LET v == d.tagsIt.ValueIt
        n == RunLength(v.scanner)
        with(w, doc) == [d EXCEPT !.tagsIt.ValueIt = w, !.current = doc]
    IN IF v.err # NoErr THEN [it |-> d, ok |-> FALSE]
       ELSE IF ~storeOk THEN [it |-> with([v EXCEPT !.err = StoreError], <<>>), ok |-> FALSE]
       ELSE IF v.scanner = <<>> THEN [it |-> with(v, <<>>), ok |-> FALSE]
       ELSE [it |-> with([v EXCEPT !.scanner = SubSeq(v.scanner, n + 1, Len(v.scanner)),
                                   !.cur = <<v.scanner[n]>>],
                         <<Document(SubSeq(v.scanner, 1, n), d.tagsIt.Selected)>>),
             ok |-> TRUE]

\* query.Iterator: Next, Result and Err of the three iterators.
IterNext(it, storeOk) ==
    CASE it.kind = "ValueIterator" -> ValueNext(it, storeOk)
      [] it.kind = "TagsIterator" ->
           LET r == ValueNext(it.ValueIt, storeOk)
           IN [it |-> [it EXCEPT !.ValueIt = r.it], ok |-> r.ok]
      [] it.kind = "DocumentIterator" -> DocumentNext(it, storeOk)

IterResult(it) ==
    CASE it.kind = "ValueIterator" -> it.cur[1].node
      [] it.kind = "TagsIterator" -> TagsRecord(it.ValueIt.cur[1].tags, it.Selected)
      [] it.kind = "DocumentIterator" -> it.current[1]

IterErr(it) == ValueItOf(it).err

\* ------------------------------------------------------------- final steps
newTagsIteratorFrom_AllTags(from, selected, qs, ns) ==
    LET fromPath == BuildFrom(from, qs, ns, FALSE)
    IN IF fromPath.err # NoErr
       THEN [it |-> NoIterator, err |-> fromPath.err, ns |-> fromPath.ns]
       ELSE [it |-> TagsIterator(NewValueIterator(fromPath.path, qs), <<>>),
             err |-> NoErr, ns |-> fromPath.ns]

newTagsIteratorFrom_Limited(from, selected, qs, ns) ==
    LET fromPath == BuildFrom(from, qs, ns, FALSE)
    IN IF fromPath.err # NoErr
       THEN [it |-> NoIterator, err |-> fromPath.err, ns |-> fromPath.ns]
       ELSE [it |-> TagsIterator(NewValueIterator(PathLimit(fromPath.path, 1), qs), selected),
             err |-> NoErr, ns |-> fromPath.ns]

newTagsIteratorFrom(from, selected, qs, ns) ==
    LET fromPath == BuildFrom(from, qs, ns, FALSE)
    IN IF fromPath.err # NoErr
       THEN [it |-> NoIterator, err |-> fromPath.err, ns |-> fromPath.ns]
       ELSE [it |-> TagsIterator(NewValueIterator(fromPath.path, qs), selected),
             err |-> NoErr, ns |-> fromPath.ns]

singleValueIteratorFrom_NoLimit(from, qs, ns) ==
    LET fromPath == BuildFrom(from, qs, ns, FALSE)
    IN IF fromPath.err # NoErr
       THEN [it |-> NoIterator, err |-> fromPath.err, ns |-> fromPath.ns]
       ELSE [it |-> NewValueIterator(fromPath.path, qs), err |-> NoErr, ns |-> fromPath.ns]

singleValueIteratorFrom_OwnError(from, qs, ns) ==
    LET fromPath == BuildFrom(from, qs, ns, FALSE)
    IN IF fromPath.err # NoErr
       THEN [it |-> NoIterator, err |-> StoreError, ns |-> fromPath.ns]
       ELSE [it |-> NewValueIterator(PathLimit(fromPath.path, 1), qs),
             err |-> NoErr, ns |-> fromPath.ns]

singleValueIteratorFrom(from, qs, ns) ==
    LET fromPath == BuildFrom(from, qs, ns, FALSE)
    IN IF fromPath.err # NoErr
       THEN [it |-> NoIterator, err |-> fromPath.err, ns |-> fromPath.ns]
       ELSE [it |-> NewValueIterator(PathLimit(fromPath.path, 1), qs),
             err |-> NoErr, ns |-> fromPath.ns]

SelectBuildIterator(s, qs, ns) == newTagsIteratorFrom(s.From, s.Tags, qs, ns)

SelectFirstBuildIterator(s, qs, ns) ==
    LET r == singleValueIteratorFrom(s.From, qs, ns)
    IN IF r.err # NoErr THEN r
       ELSE [r EXCEPT !.it = TagsIterator(r.it, s.Tags)]

ValueBuildIterator_Wrapped(s, qs, ns) == SelectFirstBuildIterator(s, qs, ns)

ValueBuildIterator(s, qs, ns) == singleValueIteratorFrom(s.From, qs, ns)

DocumentsBuildIterator_Selected(s, qs, ns) ==
    LET r == newTagsIteratorFrom(s.From, <<"name">>, qs, ns)
    IN IF r.err # NoErr THEN r
       ELSE [r EXCEPT !.it = NewDocumentIterator(r.it)]

DocumentsBuildIterator(s, qs, ns) ==
    LET r == newTagsIteratorFrom(s.From, <<>>, qs, ns)
    IN IF r.err # NoErr THEN r
       ELSE [r EXCEPT !.it = NewDocumentIterator(r.it)]

BuildIterator(s, qs, ns) ==
    CASE s.kind = "Select" -> SelectBuildIterator(s, qs, ns)
      [] s.kind = "SelectFirst" -> SelectFirstBuildIterator(s, qs, ns)
      [] s.kind = "Value" -> ValueBuildIterator(s, qs, ns)
      [] s.kind = "Documents" -> DocumentsBuildIterator(s, qs, ns)

\* ----------------------------------------------------------------- queries
likes == <<"likes">>
exampleRules == ("bob" :> "ex:bob") @@ ("likes" :> "ex:likes")
innerRules == ("bob" :> "ex:alice")
userRules == ("bob" :> "dan")

likerLiked == As(Visit(As(NIL, "liker"), likes), "liked")
names == Properties(Vertex(<<>>), <<"name">>)
likesBob == Has(NIL, "likes", <<IRI("bob")>>)

\* The steps a query starts from.
Froms ==
    { NIL, Vertex(<<>>), Order(NIL), Order(Vertex(<<>>)), Placeholder,
      likerLiked,
      As(Visit(Vertex(<<IRI("alice")>>), likes), "liked"),
      names,
      Properties(Vertex(<<>>), likes),
      Properties(Vertex(<<>>), <<"name", "likes">>),
      Optional(names, Properties(Placeholder, likes)),
      Optional(As(NIL, "liker"), As(Visit(Placeholder, likes), "liked")),
      RegExp(Vertex(<<>>), "A"), RegExp(Vertex(<<>>), "lic"),
      Like(Vertex(<<>>), "a%"), Like(Vertex(<<>>), "%o_"),
      Union(Vertex(<<IRI("alice")>>), <<Vertex(<<IRI("bob")>>)>>),
      Union(Properties(Vertex(<<IRI("alice")>>), likes),
            <<names, Properties(Vertex(<<IRI("alice")>>), <<"name">>)>>),
      Intersect(Visit(Vertex(<<>>), likes), <<Vertex(<<IRI("bob"), IRI("alice")>>)>>),
      Difference(Vertex(<<IRI("alice"), IRI("likes")>>), <<Vertex(<<IRI("likes")>>)>>),
      Difference(Vertex(<<>>),
                 <<Vertex(<<IRI("alice"), IRI("bob")>>), Vertex(<<IRI("bob")>>)>>),
      Context(likesBob, exampleRules),
      Context(Union(Context(Vertex(<<IRI("bob")>>), innerRules), <<Vertex(<<IRI("bob")>>)>>),
              exampleRules),
      Context(Context(likesBob, innerRules), exampleRules),
      Context(Placeholder, exampleRules),
      Context(Context(Placeholder, innerRules), exampleRules),
      Union(Context(Vertex(<<IRI("bob")>>), exampleRules), <<Vertex(<<IRI("bob")>>)>>),
      Union(Vertex(<<IRI("bob")>>),
            <<Context(Vertex(<<IRI("bob")>>), exampleRules), Vertex(<<IRI("bob")>>)>>) }

TagLists == {<<>>, <<"liker">>, <<"likes", "nick">>}

Queries ==
    {Select(f, t) : f \in Froms, t \in TagLists}
        \cup {SelectFirst(f, t) : f \in Froms, t \in TagLists}
        \cup {Value(f) : f \in Froms}
        \cup {Documents(f) : f \in Froms}

\* ------------------------------------------------------------------- state
VARIABLES
    qs,        \* the quad store
    ns,        \* the namespace registry
    query,     \* the step whose iterator was built last
    it,        \* the iterator BuildIterator returned
    err,       \* the error BuildIterator returned
    outcomes,  \* what each Next of the iterator returned, in order
    results,   \* what Result returned after each successful Next
    seen,      \* what Err returned once iteration ended
    storeFailed, \* whether the store failed an advance of the iterator
    queries,   \* how many iterators were built
    pc         \* where the caller is

vars == <<qs, ns, query, it, err, outcomes, results, seen, storeFailed, queries, pc>>

Init ==
    /\ qs \in Stores
    /\ ns = NoRules
    /\ query = NIL
    /\ it = NoIterator
    /\ err = NoErr
    /\ outcomes = <<>>
    /\ results = <<>>
    /\ seen = NoErr
    /\ storeFailed = FALSE
    /\ queries = 0
    /\ pc = "idle"

\* The caller registers names of its own before it builds a query.
RegisterNames(rules) ==
    /\ pc = "idle"
    /\ queries = 0
    /\ Register(ns, rules) # ns
    /\ ns' = Register(ns, rules)
    /\ UNCHANGED <<qs, query, it, err, outcomes, results, seen, storeFailed, queries, pc>>

\* iterator, err := query.BuildIterator(store, &voc)
Build(q) ==
    /\ pc = "idle"
    /\ queries < MaxQueries
    /\ LET r == BuildIterator(q, qs, ns)
       IN /\ it' = r.it
          /\ err' = r.err
          /\ ns' = r.ns
          /\ pc' = IF r.err = NoErr THEN "iterating" ELSE "failed"
    /\ query' = q
    /\ queries' = queries + 1
    /\ outcomes' = <<>>
    /\ results' = <<>>
    /\ seen' = NoErr
    /\ storeFailed' = FALSE
    /\ UNCHANGED qs

Refusals == Cardinality({i \in 1..Len(outcomes) : ~outcomes[i]})

\* iterator.Next(ctx)
Next_(storeOk) ==
    /\ pc = "iterating"
    /\ Refusals <= MaxExtraNext
    /\ LET r == IterNext(it, storeOk)
       IN /\ it' = r.it
          /\ outcomes' = Append(outcomes, r.ok)
          /\ pc' = IF r.ok THEN "advanced" ELSE "iterating"
    /\ storeFailed' = (storeFailed \/ (~storeOk /\ IterErr(it) = NoErr))
    /\ UNCHANGED <<qs, ns, query, err, results, seen, queries>>

\* results = append(results, iterator.Result())
Result ==
    /\ pc = "advanced"
    /\ results' = Append(results, IterResult(it))
    /\ pc' = "iterating"
    /\ UNCHANGED <<qs, ns, query, it, err, outcomes, seen, storeFailed, queries>>

\* iterator.Err() after the loop
Err ==
    /\ pc = "iterating"
    /\ Refusals > 0
    /\ seen' = IterErr(it)
    /\ pc' = "done"
    /\ UNCHANGED <<qs, ns, query, it, err, outcomes, results, storeFailed, queries>>

\* The caller is through with the query and may build the next one.
Finish ==
    /\ pc \in {"done", "failed"}
    /\ pc' = "idle"
    /\ query' = NIL
    /\ it' = NoIterator
    /\ err' = NoErr
    /\ outcomes' = <<>>
    /\ results' = <<>>
    /\ seen' = NoErr
    /\ storeFailed' = FALSE
    /\ UNCHANGED <<qs, ns, queries>>

Next ==
    \/ RegisterNames(userRules)
    \/ \E q \in Queries : Build(q)
    \/ \E storeOk \in BOOLEAN : Next_(storeOk)
    \/ Result
    \/ Err
    \/ Finish

Spec == Init /\ [][Next]_vars

\* ------------------------------------------------------------------ claims
\* What a query returns when it is run to the end over a store that answers
\* every advance.
RECURSIVE Drain(_)
Drain(i) ==
    LET r == IterNext(i, TRUE)
    IN IF r.ok THEN <<IterResult(r.it)>> \o Drain(r.it) ELSE <<>>

RunQuery(q) ==
    LET r == BuildIterator(q, qs, ns)
    IN [err |-> r.err, results |-> IF r.err = NoErr THEN Drain(r.it) ELSE <<>>]

IsPrefix(a, b) == Len(a) <= Len(b) /\ a = SubSeq(b, 1, Len(a))

Running == query # NIL /\ err = NoErr
\* The query ran to the end and the store never failed.
Drained == Running /\ pc = "done" /\ seen = NoErr

\* The matches of a step compiled on its own.
MatchesOf(step) == Iterate(BuildFrom(step, qs, ns, FALSE).path, qs, <<>>)

\* C1: a step built with From omitted is the step built with From = Vertex{}:
\* BuildFrom(nil) is the path over every node of the store, without error,
\* and the results of Select, SelectFirst, Value and Documents with From nil
\* are those of the same step with From = Vertex{}.
C1_DefaultStart ==
    /\ BuildFrom(NIL, qs, ns, FALSE).err = NoErr
    /\ MatchesOf(NIL) = [i \in 1..Len(AllNodes(qs)) |-> Binding(AllNodes(qs)[i], NoTags)]
    /\ \A f \in Froms :
          (f.kind \in {"As", "Order"} /\ f.From = NIL) =>
              BuildPath(f, qs, ns, FALSE) = BuildPath([f EXCEPT !.From = Vertex(<<>>)], qs, ns, FALSE)
    /\ (query # NIL /\ query.From = NIL) =>
          LET other == RunQuery([query EXCEPT !.From = Vertex(<<>>)])
          IN /\ err = other.err
             /\ IsPrefix(results, other.results)
             /\ Drained => results = other.results

C1_Witness ==
    /\ Drained
    /\ query.From = NIL
    /\ query.kind = "Select"
    /\ Len(results) >= 3

C3_SelectFirst ==
    (Running /\ query.kind = "SelectFirst") =>
        LET select == RunQuery(Select(query.From, query.Tags)).results
            advances == Cardinality({i \in 1..Len(outcomes) : outcomes[i]})
        IN /\ it.ValueIt.path = PathLimit(BuildFrom(query.From, qs, ns, FALSE).path, 1)
           /\ advances + Len(it.ValueIt.scanner) <= 1
           /\ Len(results) <= 1
           /\ \A i \in 1..Len(results) : \E j \in 1..Len(select) : results[i] = select[j]
           /\ Drained => (results = <<>> <=> select = <<>>)

C3_Witness ==
    /\ Drained
    /\ query.kind = "SelectFirst"
    /\ Len(results) = 1
    /\ Len(MatchesOf(query.From)) >= 2
    /\ DOMAIN results[1] # {}

\* C4: Value is SelectFirst without tags, unwrapped: it emits a result exactly
\* when SelectFirst does, at most one, and the result is the typed value of
\* the matched node, not a record of tags.
C4_Value ==
    (query # NIL /\ query.kind = "Value") =>
        LET first == RunQuery(SelectFirst(query.From, <<>>))
            matches == MatchesOf(query.From)
        IN /\ err = first.err
           /\ Len(results) <= 1
           /\ Drained => Len(results) = Len(first.results)
           /\ \A i \in 1..Len(results) :
                 /\ results[i] = matches[1].node
                 /\ DOMAIN results[i] = {"t", "v"}

C4_Witness ==
    /\ Drained
    /\ query.kind = "Value"
    /\ Len(results) = 1
    /\ results[1].t = "str"
    /\ Len(MatchesOf(query.From)) >= 2

\* The positions of matches where a run of bindings of one subject starts.
RunStarts(matches) ==
    {i \in 1..Len(matches) : i = 1 \/ matches[i].node # matches[i - 1].node}

\* C5: Documents groups the bindings of From by adjacency: the k-th document
\* is the k-th maximal run of consecutive bindings of one subject, holds the
\* subject under "@id" and, for each tag bound in the run, the list of the
\* tag's values in arrival order; the documents come in the order of the runs.
C5_Documents ==
    (Running /\ query.kind = "Documents") =>
        LET matches == MatchesOf(query.From)
            starts == RunStarts(matches)
            start(k) == CHOOSE s \in starts : Cardinality({x \in starts : x < s}) = k - 1
            end(k) == IF k = Cardinality(starts) THEN Len(matches) ELSE start(k + 1) - 1
            valuesOf(run, t) ==
                LET having == SelectSeq(run, LAMBDA b : t \in DOMAIN b.tags)
                IN [j \in 1..Len(having) |-> having[j].tags[t]]
        IN /\ Len(results) <= Cardinality(starts)
           /\ Drained => Len(results) = Cardinality(starts)
           /\ \A k \in 1..Len(results) :
                 LET run == SubSeq(matches, start(k), end(k))
                 IN /\ results[k]["@id"] = matches[start(k)].node.v
                    /\ DOMAIN results[k] =
                          {"@id"} \cup UNION {DOMAIN run[i].tags : i \in 1..Len(run)}
                    /\ \A t \in DOMAIN results[k] \ {"@id"} :
                          results[k][t] = valuesOf(run, t)
           /\ (Drained /\ qs = documentsData
                 /\ query.From = Properties(Vertex(<<>>), <<"name", "likes">>)) =>
                 results =
                    << ("@id" :> "alice") @@ ("name" :> <<IRI("Alice")>>)
                           @@ ("likes" :> <<IRI("bob")>>),
                       ("@id" :> "bob") @@ ("name" :> <<IRI("Bob")>>)
                           @@ ("likes" :> <<IRI("alice")>>) >>

C5_Witness ==
    /\ Drained
    /\ query.kind = "Documents"
    /\ \E i, j \in 1..Len(results) :
          /\ i + 1 < j
          /\ results[i]["@id"] = results[j]["@id"]
          /\ "likes" \in DOMAIN results[i]
          /\ Len(results[i]["likes"]) = 2

\* C6: Select over Optional{From, Step} emits one record per match of From,
\* as many records as Select over From does, and the record of a binding
\* that Step does not match holds the tags of the binding and no other.
C6_Optional ==
    (Running /\ query.kind = "Select" /\ query.From # NIL
        /\ query.From.kind = "Optional") =>
        LET from == MatchesOf(query.From.From)
            step == BuildPath(query.From.Step, qs, ns, TRUE).path
            plain == RunQuery(Select(query.From.From, query.Tags)).results
        IN /\ Len(results) <= Len(from)
           /\ Drained => Len(results) = Len(from) /\ Len(results) = Len(plain)
           /\ \A i \in 1..Len(results) :
                 IF Iterate(step, qs, <<from[i]>>) = <<>>
                 THEN results[i] = plain[i]
                 ELSE \A t \in DOMAIN plain[i] :
                         t \in DOMAIN results[i] /\ results[i][t] = plain[i][t]

C6_Witness ==
    /\ Drained
    /\ query.kind = "Select"
    /\ query.From # NIL
    /\ query.From.kind = "Optional"
    /\ query.Tags = <<>>
    /\ LET from == MatchesOf(query.From.From)
           step == BuildPath(query.From.Step, qs, ns, TRUE).path
       IN \E i, j \in 1..Len(results) :
             /\ Len(Iterate(step, qs, <<from[i]>>)) >= 2
             /\ DOMAIN results[i] # DOMAIN from[i].tags
             /\ Iterate(step, qs, <<from[j]>>) = <<>>
             /\ results[j] = from[j].tags

\* The bindings the iterator is at and has yet to reach.
Cursor == ValueItOf(it).cur \o ValueItOf(it).scanner

Filtering == query # NIL /\ query.From # NIL /\ query.From.kind \in {"RegExp", "Like"}

\* C7 as claimed: RegExp and Like never let an entity reference through, and
\* entity references in From never make compilation or iteration fail.
C7_LiteralsOnly ==
    Filtering =>
        /\ err = NoErr
        /\ ~storeFailed => IterErr(it) = NoErr /\ seen = NoErr
        /\ \A i \in 1..Len(Cursor) : Cursor[i].node.t # "iri"
        /\ query.kind = "Value" => \A i \in 1..Len(results) : results[i].t # "iri"

\* C7, amended: RegExp never lets an entity reference through; Like lets
\* through the nodes of From, literals and entity references alike, whose
\* string form matches the pattern; neither makes compilation or iteration
\* fail on the nodes of From.
C7_Filters ==
    Filtering =>
        /\ err = NoErr
        /\ ~storeFailed => IterErr(it) = NoErr /\ seen = NoErr
        /\ query.From.kind = "RegExp" =>
              /\ \A i \in 1..Len(Cursor) : Cursor[i].node.t = "str"
              /\ query.kind = "Value" => \A i \in 1..Len(results) : results[i].t = "str"
        /\ query.From.kind = "Like" =>
              LET matching == SelectSeq(MatchesOf(query.From.From), LAMBDA b :
                      WildcardMatch(Chars[query.From.Pattern], Chars[b.node.v]))
              IN /\ (outcomes = <<>> /\ query.kind \in {"Select", "Documents"}) =>
                        ValueItOf(it).scanner = matching
                 /\ (Drained /\ query.kind = "Value") =>
                        results = [i \in 1..Min(1, Len(matching)) |-> matching[i].node]

C7_Witness ==
    /\ Drained
    /\ query.kind = "Value"
    /\ query.From = Like(Vertex(<<>>), "a%")
    /\ results = <<IRI("alice")>>

RECURSIVE SetFold(_, _, _)
SetFold(kind, acc, steps) ==
    IF steps = <<>> THEN acc
    ELSE LET other == NodesOf(MatchesOf(Head(steps)))
         IN SetFold(kind,
                    CASE kind = "Union" -> acc \cup other
                      [] kind = "Intersect" -> acc \cap other
                      [] kind = "Difference" -> acc \ other,
                    Tail(steps))

\* C8: the values of Union, Intersect and Difference of From with Steps are
\* the union, the intersection and the difference of the values of From and
\* of each step, taken from From on, left to right.
C8_SetAlgebra ==
    (Running /\ query.kind \in {"Select", "Documents"} /\ query.From # NIL
        /\ query.From.kind \in {"Union", "Intersect", "Difference"}) =>
        LET expected == SetFold(query.From.kind, NodesOf(MatchesOf(query.From.From)),
                                query.From.Steps)
        IN /\ outcomes = <<>> => NodesOf(ValueItOf(it).scanner) = expected
           /\ (Drained /\ query.kind = "Documents") =>
                 {results[i]["@id"] : i \in 1..Len(results)} = {n.v : n \in expected}

C8_Witness ==
    /\ Drained
    /\ qs = singleQuadData
    /\ query = Documents(Difference(Vertex(<<>>),
                 <<Vertex(<<IRI("alice"), IRI("bob")>>), Vertex(<<IRI("bob")>>)>>))
    /\ {results[i]["@id"] : i \in 1..Len(results)} = {"likes"}

\* Vertex{bob} compiled under the names in force.
bobPath(rules) == StartPath(<<IRI(FullIRI(rules, "bob"))>>)
bobStep == Vertex(<<IRI("bob")>>)

\* The steps next to and around a Context are compiled under the names in
\* force outside it.
Scoped ==
    (Running /\ query.kind = "Select") =>
        /\ query.From = Union(Context(bobStep, exampleRules), <<bobStep>>) =>
              it.ValueIt.path = PathOr(bobPath(Register(ns, exampleRules)), bobPath(ns))
        /\ query.From = Union(bobStep, <<Context(bobStep, exampleRules), bobStep>>) =>
              it.ValueIt.path =
                 PathOr(PathOr(bobPath(ns), bobPath(Register(ns, exampleRules))), bobPath(ns))
        /\ query.From = Context(Union(Context(bobStep, innerRules), <<bobStep>>),
                                exampleRules) =>
              it.ValueIt.path =
                 PathOr(bobPath(Register(Register(ns, exampleRules), innerRules)),
                        bobPath(Register(ns, exampleRules)))

\* C9: building a query, Context steps and all, leaves the registry as it was,
\* whether compilation succeeds or fails, and the steps compiled after a
\* Context, nested or not, do not see its rules.
C9_ContextRestores == [][queries' # queries => ns' = ns /\ Scoped']_vars

C9_Witness ==
    /\ pc = "failed"
    /\ err = ConfigurationError
    /\ query.From = Context(Context(Placeholder, innerRules), exampleRules)
    /\ ns = userRules

\* C10: once Next has returned false it returns false ever after and no
\* result follows; the error of a failed advance is what Err returns once
\* iteration has ended, and the results produced before it are results of the
\* query.
C10_Termination ==
    /\ \A i, j \in 1..Len(outcomes) : (i < j /\ ~outcomes[i]) => ~outcomes[j]
    /\ Len(results) + (IF pc = "advanced" THEN 1 ELSE 0)
          = Cardinality({i \in 1..Len(outcomes) : outcomes[i]})
    /\ Running =>
          /\ IsPrefix(results, RunQuery(query).results)
          /\ Refusals > 0 => ~IterNext(it, TRUE).ok
          /\ IterErr(it) = (IF storeFailed THEN StoreError ELSE NoErr)
          /\ pc = "done" => seen = IterErr(it)

C10_Witness ==
    /\ pc = "done"
    /\ seen = StoreError
    /\ Len(results) >= 1
    /\ Refusals >= 2
    /\ Len(ValueItOf(it).scanner) >= 1

\* The kind of iterator each final step returns.
IteratorOf(kind) ==
    CASE kind = "Select" -> "TagsIterator"
      [] kind = "SelectFirst" -> "TagsIterator"
      [] kind = "Value" -> "ValueIterator"
      [] kind = "Documents" -> "DocumentIterator"

\* C11: when compiling From fails, BuildIterator of Select, SelectFirst,
\* Value and Documents returns the error of From as it is and no iterator, so
\* that nothing is limited, advanced or produced; when compiling From
\* succeeds it returns an iterator of the step's kind and no error.
C11_ErrorPropagation ==
    query # NIL =>
        LET from == BuildFrom(query.From, qs, ns, FALSE)
        IN IF from.err # NoErr
           THEN /\ err = from.err
                /\ it = NoIterator
                /\ pc \in {"failed"}
                /\ outcomes = <<>>
                /\ results = <<>>
           ELSE /\ err = NoErr
                /\ it # NoIterator
                /\ it.kind = IteratorOf(query.kind)
                /\ pc # "failed"

C11_Witness ==
    /\ pc = "failed"
    /\ query.kind = "SelectFirst"
    /\ query.From = Placeholder
    /\ err = ConfigurationError
    /\ it = NoIterator
    /\ qs = singleQuadData

====
